---- MODULE Spec2Model ----
(***************************************************************************)
(* HRV-Wireless (src/hrv.ino): an ESP8266 sketch that captures the frames  *)
(* an HRV control panel sends on a TTL serial line, validates them and     *)
(* publishes changed readings to an MQTT broker.                            *)
(*                                                                          *)
(* loop() is modelled in three steps, pc = "top" (lines 146-204, the       *)
(* reconnect block), "serial" (lines 207-245, the read loop, taken either  *)
(* one iteration at a time or as a whole) and "tail" (lines 248-353,       *)
(* validation, processing, alive message).  The serial line, WiFi and the  *)
(* broker are the environment.                                              *)
(*                                                                          *)
(* Observation variables, not read by the sketch: pubs (the messages       *)
(* handed to mqttClient.publish in the current pass), tail (what the tail  *)
(* step of the current pass did), frame (the fields of the last processed  *)
(* buffer), endCause, sent/sentIdle/sentProc/sentLost (the frame last sent *)
(* by the HRV unit and what the decoder made of it), steady, fresh,        *)
(* nArrived and top (what the reconnect block of the current pass did).    *)
(*                                                                          *)
(* Units: temperatures (fHRVTemp, fHRVLastRoof, fHRVLastHouse) are kept in *)
(* sixteenths of a degree, so that the float arithmetic of the sketch      *)
(* (x 0.0625, x 2 + 0.5, / 2) is exact integer arithmetic.                  *)
(*                                                                          *)
(* iTotalDelay is read by one comparison only (line 346), so the model     *)
(* keeps it as 0 ("below 30000") or AliveInterval ("30000 or more"); a     *)
(* myDelay with ms > 0 either leaves it below or carries it over.          *)
(*                                                                          *)
(* iFanSpeed (line 316) and iHRVLastFan (line 158) are used by the sketch  *)
(* without a declaration; they are modelled as zero-initialised globals    *)
(* of their own, distinct from iHRVFanSpeed and iHRVLastFanSpeed.          *)
(***************************************************************************)
EXTENDS Integers, Sequences, FiniteSets, TLC

\* ---------------------------------------------------------------- constants
MSGSTARTSTOP == 126
HRVROOF == 48
HRVHOUSE == 49
InDataSize == 10
MaxIndex == 8
MinLength == 6
MinProcess == 5
Sentinel == 255
AliveInterval == 30000
MaxRetries == 5
MaxTries == 450
ByteMod == 256

OPENHABHRVSTATUS == "openhab/hrv/status"
OPENHABHRVSUBHOUSE == "openhab/hrv/housetemp"
OPENHABHRVSUBROOF == "openhab/hrv/rooftemp"
OPENHABHRVSUBCONTROL == "openhab/hrv/controltemp"
OPENHABHRVSUBFANSPEED == "openhab/hrv/fanspeed"

Topics ==
  {OPENHABHRVSTATUS, OPENHABHRVSUBHOUSE, OPENHABHRVSUBROOF,
   OPENHABHRVSUBCONTROL, OPENHABHRVSUBFANSPEED}

ReadingTopics == Topics \ {OPENHABHRVSTATUS}

\* ---------------------------------------------------------------- bounds
\* Bytes the serial line delivers in the free-stream specification.
MaxStream == 11

VARIABLES
  bStarted, bEnded, bIndex, bChecksum, inData,
  eTempLoc, fHRVTemp, iHRVControlTemp, iFanSpeed,
  fHRVLastRoof, fHRVLastHouse, iHRVLastControl, iHRVLastFanSpeed, iHRVLastFan,
  iTotalDelay, pc,
  wifi, mqtt, wire, rx,
  pubs, tail, endCause, frame,
  sent, sentIdle, sentProc, sentLost, nArrived, steady, fresh, top

decoderVars == <<bStarted, bEnded, bIndex, bChecksum, inData>>
fieldVars == <<eTempLoc, fHRVTemp, iHRVControlTemp, iFanSpeed>>
lastVars ==
  <<fHRVLastRoof, fHRVLastHouse, iHRVLastControl, iHRVLastFanSpeed, iHRVLastFan>>
linkVars == <<wifi, mqtt>>
sentVars == <<sent, sentIdle, sentProc, sentLost>>
histVars == <<steady, fresh, top>>
vars ==
  <<bStarted, bEnded, bIndex, bChecksum, inData,
    eTempLoc, fHRVTemp, iHRVControlTemp, iFanSpeed,
    fHRVLastRoof, fHRVLastHouse, iHRVLastControl, iHRVLastFanSpeed, iHRVLastFan,
    iTotalDelay, pc, wifi, mqtt, wire, rx,
    pubs, tail, endCause, frame,
    sent, sentIdle, sentProc, sentLost, nArrived, steady, fresh, top>>

\* ---------------------------------------------------------------- helpers
\* (byte) x : the low eight bits, also of a negative int.
ToByte(x) == x % ByteMod

\* C's % truncates towards zero: the sign of the dividend is kept.
CRem(a, m) == IF a >= 0 THEN a % m ELSE 0 - ((0 - a) % m)

\* String(decValue, HEX): lower-case digits, no padding; characters as codes.
HexDigit(d) == IF d < 10 THEN 48 + d ELSE 97 + (d - 10)

HexString(v) == IF v < 16 THEN <<HexDigit(v)>> ELSE <<HexDigit(v \div 16), HexDigit(v % 16)>>

RECURSIVE PadLeft(_, _)
PadLeft(s, n) == IF Len(s) < n THEN PadLeft(<<48>> \o s, n) ELSE s

decToHex(decValue, desiredStringLength) ==
  PadLeft(HexString(decValue), desiredStringLength)

\* map(x, a, b, c, d) of Arduino, and constrain.
map(x, inMin, inMax, outMin, outMax) ==
  ((x - inMin) * (outMax - outMin)) \div (inMax - inMin) + outMin

constrain(x, lo, hi) == IF x < lo THEN lo ELSE IF x > hi THEN hi ELSE x

\* Variant: the upper-case digits only (lines 383 and 384).
HexCharValueUpper(c) ==
  LET a == IF c >= 48 /\ c <= 57 THEN map(c, 48, 57, 0, 9) ELSE c
      b == IF a >= 65 /\ a <= 70 THEN map(a, 65, 70, 10, 15) ELSE a
  IN constrain(b, 0, 15)

HexCharValue(c) ==
  LET a == IF c >= 48 /\ c <= 57 THEN map(c, 48, 57, 0, 9) ELSE c
      b == IF a >= 65 /\ a <= 70 THEN map(a, 65, 70, 10, 15) ELSE a
      d == IF b >= 97 /\ b <= 102 THEN map(b, 97, 102, 10, 15) ELSE b
  IN constrain(d, 0, 15)

RECURSIVE hexToDecFrom(_, _, _)
hexToDecFrom(hexString, i, decValue) ==
  IF i > Len(hexString) THEN decValue
  ELSE hexToDecFrom(hexString, i + 1, (decValue * 16) + HexCharValue(hexString[i]))

hexToDec(hexString) == hexToDecFrom(hexString, 1, 0)

\* ---------------------------------------------------------------- decoder
\* Variant: line 213 without the test of bIndex.
IsEndMarkerOnly(inChar, index) == inChar = MSGSTARTSTOP

\* Variant: line 213 taken for every byte.
IsEndAnyByte(inChar, index) == TRUE

\* Line 213: start or stop marker, or data too long.
IsEnd(inChar, index) == inChar = MSGSTARTSTOP \/ index > MaxIndex

\* Lines 210-243, one iteration of the read loop on the decoder
\* d = [started, ended, index, check, data, cause]; stop is the break of line 224.
ReadByte(d, inChar) ==
  IF IsEnd(inChar, d.index) /\ d.index # 0
    THEN [d |-> [d EXCEPT !.check = d.index - 1, !.ended = TRUE,
                          !.cause = IF inChar = MSGSTARTSTOP THEN "marker" ELSE "overflow"],
          stop |-> TRUE]
  ELSE LET started == IF IsEnd(inChar, d.index) THEN TRUE ELSE d.started
       IN [d |-> IF started
                   THEN [d EXCEPT !.started = TRUE,
                                  !.data = [d.data EXCEPT ![d.index] = inChar],
                                  !.index = d.index + 1]
                 ELSE d,
           stop |-> FALSE]

\* Lines 207-245: iterations until hrvSerial.available() is 0 or the break;
\* reads counts the iterations that reached myDelay(1).
RECURSIVE ReadAll(_, _, _)
ReadAll(d, q, reads) ==
  IF q = <<>> THEN [d |-> d, rest |-> q, reads |-> reads]
  ELSE LET r == ReadByte(d, Head(q))
       IN IF r.stop THEN [d |-> r.d, rest |-> Tail(q), reads |-> reads]
          ELSE ReadAll(r.d, Tail(q), reads + 1)

\* The decoder between captures, as lines 279-281 and 332-334 leave it.
Idle == ~bStarted /\ ~bEnded /\ bIndex = 0

\* Lines 260-267: iChar = 0, then iChar = iChar - inData[iPos] for iPos = 1 .. bChecksum-1.
RECURSIVE SubtractBytes(_, _, _, _)
SubtractBytes(data, iPos, check, iChar) ==
  IF iPos < check THEN SubtractBytes(data, iPos + 1, check, iChar - data[iPos])
  ELSE iChar

\* Variant: the sum starts after the location byte (iPos = 2).
CalcChecksumDataOnly(data, check) == ToByte(CRem(SubtractBytes(data, 2, check, 0), ByteMod))

\* Line 270: bCalc = (byte) (iChar % 0x100).
CalcChecksum(data, check) == ToByte(CRem(SubtractBytes(data, 1, check, 0), ByteMod))

\* Lines 271-273: sCalc and sCheck, the two checksums as hex strings.
ChecksumMatches(data, check) ==
  decToHex(CalcChecksum(data, check), 2) = decToHex(data[check], 2)

\* Variant: line 276 without the comparison of the two checksums.
ChecksumFailsLengthOnly(data, check, index) == index < MinLength

\* Line 276: sCalc != sCheck || bIndex < 6.
ChecksumFails(data, check, index) ==
  ~ChecksumMatches(data, check) \/ index < MinLength

\* Line 248: the validation block runs.
Validates(started, ended, check) == started /\ ended /\ check > 0

\* Lines 293-297: both markers seen and more than five bytes in the buffer.
Processes(started, ended, index) == started /\ ended /\ index > MinProcess

\* Lines 305-326: the fields of the captured buffer.  eTempLoc keeps its value
\* from position 1 on, so positions 4 and 5 are read for a House buffer only.
Extract(data, oldFan, oldControl) ==
  LET loc == data[1]
      sHexPartOne == decToHex(data[2], 2)
      sHexPartTwo == decToHex(data[3], 2)
  IN [loc |-> loc,
      temp |-> hexToDec(sHexPartOne \o sHexPartTwo),
      fan |-> IF loc = HRVHOUSE THEN data[4] ELSE oldFan,
      ctl |-> IF loc = HRVHOUSE THEN data[5] ELSE oldControl]

\* ---------------------------------------------------------------- timing
\* Lines 505-521: iTotalDelay += ms, kept as below / at-or-over AliveInterval.
myDelay(total, ms, over) == IF ms > 0 /\ over THEN AliveInterval ELSE total

\* ---------------------------------------------------------------- publishing
\* Variant: the gate without the WiFi test.
LinkUpBrokerOnly(w, m) == m

\* Lines 402 and 346: WiFi.status() == WL_CONNECTED && mqttClient.connected().
LinkUp(w, m) == w /\ m

\* Lines 406-407: (int) ((fHRVTemp * 2) + 0.5), then / 2; in sixteenths.
RoundHalf(t) == 8 * ((t + 4) \div 8)

Degrees(d) == 16 * d

Pub(topic, text, num, ok) == [topic |-> topic, text |-> text, num |-> num, ok |-> ok]

\* The return values of mqttClient.publish, per topic: all true, all false.
AllOk == [t \in Topics |-> TRUE]

AllFail == [t \in Topics |-> FALSE]

\* Lines 418 and 432.
TempChanged(t, lastTemp) == t # lastTemp

\* Line 441.
ControlChanged(ctl, lastControl, lastFan) == ctl # lastControl \/ lastFan = Sentinel

\* Line 454, evaluated after lines 421, 435 and 445 have stored the new values.
FanChanged(loc, t, ctl, fan, L) ==
  \/ fan # L.fanSpeed
  \/ ctl # L.control
  \/ (loc = HRVROOF /\ t # L.roof)
  \/ (loc = HRVHOUSE /\ t # L.house)

\* Variant: the heating test with lastRoof >= lastHouse.
FanStatusLooseHeating(fan, lastControl, lastRoof, lastHouse) ==
  IF fan = 0 THEN [text |-> "Off", num |-> 0]
  ELSE IF fan = 5 THEN [text |-> "Idle", num |-> 0]
  ELSE IF fan = 100 THEN
    IF Degrees(lastControl) >= lastRoof /\ lastRoof >= lastHouse
      THEN [text |-> "Full (heating)", num |-> 0]
    ELSE IF lastRoof <= Degrees(lastControl) /\ lastRoof < lastHouse
      THEN [text |-> "Full (cooling)", num |-> 0]
    ELSE [text |-> "Full", num |-> 0]
  ELSE [text |-> "%", num |-> fan]

\* Lines 459-484.
FanStatus(fan, lastControl, lastRoof, lastHouse) ==
  IF fan = 0 THEN [text |-> "Off", num |-> 0]
  ELSE IF fan = 5 THEN [text |-> "Idle", num |-> 0]
  ELSE IF fan = 100 THEN
    IF Degrees(lastControl) >= lastRoof /\ lastRoof > lastHouse
      THEN [text |-> "Full (heating)", num |-> 0]
    ELSE IF lastRoof <= Degrees(lastControl) /\ lastRoof < lastHouse
      THEN [text |-> "Full (cooling)", num |-> 0]
    ELSE [text |-> "Full", num |-> 0]
  ELSE [text |-> "%", num |-> fan]

\* Lines 398-500 with the link up.  L holds the last-published values; res gives
\* the return value of mqttClient.publish per topic (the sketch ignores it).
SendMQTTMessage(loc, temp, ctl, fan, L, res) ==
  LET t == RoundHalf(temp)
      houseSend == loc = HRVHOUSE /\ TempChanged(t, L.house)
      roofSend == loc # HRVHOUSE /\ loc = HRVROOF /\ TempChanged(t, L.roof)
      L1 == [L EXCEPT !.house = IF houseSend THEN t ELSE @,
                      !.roof = IF roofSend THEN t ELSE @]
      p1 == IF houseSend
              THEN <<Pub(OPENHABHRVSUBHOUSE, "number", t, res[OPENHABHRVSUBHOUSE])>>
            ELSE IF roofSend
              THEN <<Pub(OPENHABHRVSUBROOF, "number", t, res[OPENHABHRVSUBROOF])>>
            ELSE <<>>
      ctlSend == ControlChanged(ctl, L1.control, L1.fan)
      L2 == [L1 EXCEPT !.control = IF ctlSend THEN ctl ELSE @]
      p2 == IF ctlSend
              THEN <<Pub(OPENHABHRVSUBCONTROL, "number", ctl, res[OPENHABHRVSUBCONTROL])>>
            ELSE <<>>
      fanSend == FanChanged(loc, t, ctl, fan, L2)
      L3 == [L2 EXCEPT !.fanSpeed = IF fanSend THEN fan ELSE @]
      st == FanStatus(fan, L3.control, L3.roof, L3.house)
      p3 == IF fanSend
              THEN <<Pub(OPENHABHRVSUBFANSPEED, st.text, st.num, res[OPENHABHRVSUBFANSPEED])>>
            ELSE <<>>
  IN [temp |-> t, last |-> L3, out |-> p1 \o p2 \o p3]

Last ==
  [roof |-> fHRVLastRoof, house |-> fHRVLastHouse, control |-> iHRVLastControl,
   fanSpeed |-> iHRVLastFanSpeed, fan |-> iHRVLastFan]

\* ---------------------------------------------------------------- connecting
\* Lines 527-563.  polls is the number of 2-second polls after which the
\* environment brings WiFi up: past MaxTries the sketch calls ESP.reset().
\* Variant: the reset test as iTries >= 450.
startWIFIEarlyReset(w, polls) ==
  IF w THEN "connected"
  ELSE IF polls >= MaxTries THEN "reset"
  ELSE "joined"

startWIFI(w, polls) ==
  IF w THEN "connected"
  ELSE IF polls > MaxTries THEN "reset"
  ELSE "joined"

\* Lines 164-187.  iRetries is the local of line 155, attempt counts the calls
\* of mqttClient.connect; the environment lets attempt okAt succeed and shows
\* WiFi down after failed attempt dropAt (0: never).
RECURSIVE ConnectLoop(_, _, _, _)
ConnectLoop(iRetries, attempt, okAt, dropAt) ==
  IF attempt = okAt THEN [connected |-> TRUE, wifi |-> TRUE, calls |-> attempt]
  ELSE IF attempt = dropAt \/ iRetries > MaxRetries
    THEN [connected |-> FALSE, wifi |-> attempt # dropAt, calls |-> attempt]
  ELSE ConnectLoop(iRetries + 1, attempt + 1, okAt, dropAt)

\* ---------------------------------------------------------------- initial state
NoTail ==
  [checked |-> FALSE, matched |-> FALSE, processed |-> FALSE, index |-> 0,
   cause |-> "none", linked |-> FALSE]

NoFrame == [loc |-> 0, temp |-> 0, fan |-> 0, ctl |-> 0]

NoTop ==
  [ran |-> FALSE, start |-> "none", polls |-> 0, okAt |-> 0, dropAt |-> 0,
   calls |-> 0, connected |-> FALSE]

\* Globals after setup() (lines 117-139); a global without an initialiser is 0.
ProgramInit ==
  /\ bStarted = FALSE
  /\ bEnded = FALSE
  /\ bIndex = 0
  /\ bChecksum = 0
  /\ inData = [i \in 0 .. InDataSize - 1 |-> 0]
  /\ eTempLoc = 0
  /\ fHRVTemp = 0
  /\ iHRVControlTemp = 0
  /\ iFanSpeed = 0
  /\ fHRVLastRoof = 0
  /\ fHRVLastHouse = 0
  /\ iHRVLastControl = 0
  /\ iHRVLastFanSpeed = 0
  /\ iHRVLastFan = 0
  /\ iTotalDelay = 0
  /\ pc = "top"

Init ==
  /\ ProgramInit
  /\ wifi \in BOOLEAN
  /\ mqtt = FALSE
  /\ wire = <<>>
  /\ rx = <<>>
  /\ pubs = <<>>
  /\ tail = NoTail
  /\ endCause = "none"
  /\ frame = NoFrame
  /\ sent = <<>>
  /\ sentIdle = FALSE
  /\ sentProc = 0
  /\ sentLost = FALSE
  /\ nArrived = 0
  /\ steady = FALSE
  /\ fresh = FALSE
  /\ top = NoTop

\* ESP.reset() (line 552): the sketch starts again from setup().
Restart ==
  /\ bStarted' = FALSE
  /\ bEnded' = FALSE
  /\ bIndex' = 0
  /\ bChecksum' = 0
  /\ inData' = [i \in 0 .. InDataSize - 1 |-> 0]
  /\ eTempLoc' = 0
  /\ fHRVTemp' = 0
  /\ iHRVControlTemp' = 0
  /\ iFanSpeed' = 0
  /\ fHRVLastRoof' = 0
  /\ fHRVLastHouse' = 0
  /\ iHRVLastControl' = 0
  /\ iHRVLastFanSpeed' = 0
  /\ iHRVLastFan' = 0
  /\ iTotalDelay' = 0
  /\ pc' = "top"
  /\ mqtt' = FALSE
  /\ wifi' = FALSE
  /\ rx' = <<>>
  /\ sentLost' = (sentLost \/ rx # <<>>)
  /\ pubs' = <<>>
  /\ tail' = NoTail
  /\ endCause' = "none"
  /\ steady' = FALSE
  /\ fresh' = FALSE
  /\ UNCHANGED <<wire, frame, sent, sentIdle, sentProc, nArrived>>

\* ---------------------------------------------------------------- loop()
\* Lines 146-204.  Inputs: polls (startWIFI), the value the uninitialised
\* iRetries holds, the attempt that succeeds (0: none), the failed attempt
\* after which WiFi is seen down (0: none), and whether the delays of this
\* block carry iTotalDelay over AliveInterval.
LoopTop(polls, garbage, okAt, dropAt, over) ==
  /\ pc = "top"
  /\ IF mqtt
       THEN /\ pc' = "serial"
            /\ pubs' = <<>>
            /\ tail' = NoTail
            /\ UNCHANGED <<decoderVars, fieldVars, lastVars, iTotalDelay, linkVars,
                           wire, rx, endCause, frame, sentVars, nArrived,
                           histVars>>
     ELSE IF startWIFI(wifi, polls) = "reset"
       THEN Restart /\ top' = [NoTop EXCEPT !.ran = TRUE, !.start = "reset", !.polls = polls]
     ELSE \E c \in {ConnectLoop(garbage, 1, okAt, dropAt)} :
             /\ iHRVLastFan' = Sentinel
             /\ iHRVLastControl' = Sentinel
             /\ fHRVLastRoof' = Degrees(Sentinel)
             /\ fHRVLastHouse' = Degrees(Sentinel)
             /\ mqtt' = c.connected
             /\ wifi' = c.wifi
             /\ iTotalDelay' = myDelay(iTotalDelay, 2000, over)
             /\ pc' = "serial"
             /\ pubs' = <<>>
             /\ steady' = FALSE
             /\ fresh' = c.connected
                        /\ top' = [ran |-> TRUE, start |-> startWIFI(wifi, polls),
                        polls |-> IF wifi THEN 0 ELSE polls,
                        okAt |-> okAt, dropAt |-> dropAt,
                        calls |-> c.calls, connected |-> c.connected]
             /\ tail' = NoTail
             /\ UNCHANGED <<decoderVars, fieldVars, iHRVLastFanSpeed, wire, rx,
                            endCause, frame, sentVars, nArrived>>

\* The first byte of the frame last put on the wire is about to be read.
FirstOfSent == sent # <<>> /\ ~sentLost /\ Len(wire) + Len(rx) = Len(sent)

Decoder ==
  [started |-> bStarted, ended |-> bEnded, index |-> bIndex, check |-> bChecksum,
   data |-> inData, cause |-> endCause]

SetDecoder(d) ==
  /\ bStarted' = d.started
  /\ bEnded' = d.ended
  /\ bIndex' = d.index
  /\ bChecksum' = d.check
  /\ inData' = d.data
  /\ endCause' = d.cause

\* Lines 207-245, one iteration: hrvSerial.available() > 0.
SerialRead(over) ==
  /\ pc = "serial"
  /\ rx # <<>>
  /\ \E r \in {ReadByte(Decoder, Head(rx))} :
        /\ SetDecoder(r.d)
        /\ rx' = Tail(rx)
        /\ iTotalDelay' = myDelay(iTotalDelay, IF r.stop THEN 0 ELSE 1, over)
        /\ pc' = IF r.stop THEN "tail" ELSE "serial"
  /\ IF FirstOfSent
       THEN sentIdle' = Idle /\ sentProc' = 0
       ELSE UNCHANGED <<sentIdle, sentProc>>
  /\ UNCHANGED <<fieldVars, lastVars, linkVars, wire, pubs, tail, frame,
                 sent, sentLost, nArrived, histVars>>

\* Lines 207-245 as a whole, on the bytes the receive buffer holds.
SerialLoop(over) ==
  /\ pc = "serial"
  /\ \E r \in {ReadAll(Decoder, rx, 0)} :
        /\ SetDecoder(r.d)
        /\ rx' = r.rest
        /\ iTotalDelay' = myDelay(iTotalDelay, r.reads, over)
        /\ pc' = "tail"
  /\ IF FirstOfSent /\ rx # <<>>
       THEN sentIdle' = Idle /\ sentProc' = 0
       ELSE UNCHANGED <<sentIdle, sentProc>>
  /\ UNCHANGED <<fieldVars, lastVars, linkVars, wire, pubs, tail, frame,
                 sent, sentLost, nArrived, histVars>>

\* Line 207: hrvSerial.available() is 0, the read loop ends.
SerialDone ==
  /\ pc = "serial"
  /\ rx = <<>>
  /\ pc' = "tail"
  /\ UNCHANGED <<decoderVars, fieldVars, lastVars, iTotalDelay, linkVars, wire, rx,
                 pubs, tail, endCause, frame, sentVars, nArrived, histVars>>

\* Lines 248-353.  Inputs: the results of mqttClient.publish per topic, whether
\* hrvSerial.flush() drops the received bytes, and whether the delays of this
\* pass carry iTotalDelay over AliveInterval.  (The singleton quantifiers bind
\* a value that is used several times, so that it is computed once.)
LoopTail(res, drops, over) ==
  /\ pc = "tail"
  /\ \E checked \in {Validates(bStarted, bEnded, bChecksum)} :
     \E failed \in {checked /\ ChecksumFails(inData, bChecksum, bIndex)} :
     \E f \in {Extract(inData, iFanSpeed, iHRVControlTemp)} :
     \E m \in {SendMQTTMessage(f.loc, f.temp, f.ctl, f.fan, Last, res)} :
     LET started1 == IF failed THEN FALSE ELSE bStarted
         ended1 == IF failed THEN FALSE ELSE bEnded
         index1 == IF failed THEN 0 ELSE bIndex
         both == started1 /\ ended1
         proc == Processes(started1, ended1, index1)
         linked == LinkUp(wifi, mqtt)
         publish == proc /\ linked
         ms == IF publish THEN 1050 ELSE IF both THEN 0 ELSE 2000
         total1 == myDelay(iTotalDelay, ms, over)
         alive == linked /\ total1 >= AliveInterval
     IN /\ bStarted' = (IF proc THEN FALSE ELSE started1)
        /\ bEnded' = (IF proc THEN FALSE ELSE ended1)
        /\ bIndex' = (IF proc THEN 0 ELSE index1)
        /\ bChecksum' = (IF checked THEN 0 ELSE bChecksum)
        /\ UNCHANGED inData
        /\ eTempLoc' = (IF proc THEN f.loc ELSE eTempLoc)
        /\ iFanSpeed' = (IF proc THEN f.fan ELSE iFanSpeed)
        /\ iHRVControlTemp' = (IF proc THEN f.ctl ELSE iHRVControlTemp)
        /\ fHRVTemp' = (IF publish THEN m.temp ELSE IF proc THEN f.temp ELSE fHRVTemp)
        /\ fHRVLastRoof' = (IF publish THEN m.last.roof ELSE fHRVLastRoof)
        /\ fHRVLastHouse' = (IF publish THEN m.last.house ELSE fHRVLastHouse)
        /\ iHRVLastControl' = (IF publish THEN m.last.control ELSE iHRVLastControl)
        /\ iHRVLastFanSpeed' = (IF publish THEN m.last.fanSpeed ELSE iHRVLastFanSpeed)
        /\ UNCHANGED iHRVLastFan
        /\ iTotalDelay' = (IF alive THEN 0 ELSE total1)
        /\ pubs' = pubs \o (IF publish THEN m.out ELSE <<>>)
                        \o (IF alive
                              THEN <<Pub(OPENHABHRVSTATUS, "1", 0, res[OPENHABHRVSTATUS])>>
                              ELSE <<>>)
        /\ rx' = (IF failed /\ drops THEN <<>> ELSE rx)
        /\ sentLost' = (sentLost \/ (failed /\ drops /\ rx # <<>>))
        /\ tail' = [checked |-> checked, matched |-> checked /\ ChecksumMatches(inData, bChecksum),
                    processed |-> proc, index |-> index1,
                    cause |-> endCause, linked |-> linked]
        /\ endCause' = (IF failed \/ proc THEN "none" ELSE endCause)
        /\ frame' = (IF proc THEN f ELSE frame)
        /\ sentProc' = (IF proc THEN sentProc + 1 ELSE sentProc)
        /\ steady' = (IF proc THEN linked /\ res = AllOk ELSE steady)
        /\ fresh' = (IF publish THEN FALSE ELSE fresh)
        /\ top' = NoTop
        /\ pc' = "top"
        /\ UNCHANGED <<linkVars, wire, sent, sentIdle, nArrived>>

\* ---------------------------------------------------------------- environment
\* One byte reaches the receive buffer of hrvSerial (free-stream source).
Garbage(b) ==
  /\ rx = <<>>
  /\ nArrived < MaxStream
  /\ rx' = <<b>>
  /\ nArrived' = nArrived + 1
  /\ UNCHANGED <<decoderVars, fieldVars, lastVars, iTotalDelay, pc, linkVars, wire,
                 pubs, tail, endCause, frame, sentVars, histVars>>

\* The HRV unit starts sending the byte sequence f (frame source).
Transmit(f) ==
  /\ wire = <<>>
  /\ rx = <<>>
  /\ wire' = f
  /\ sent' = f
  /\ sentIdle' = FALSE
  /\ sentProc' = 0
  /\ sentLost' = FALSE
  /\ UNCHANGED <<decoderVars, fieldVars, lastVars, iTotalDelay, pc, linkVars, rx,
                 pubs, tail, endCause, frame, nArrived, histVars>>

\* A whole frame f, sent while the sketch was busy, waits in the receive buffer.
Receive(f) ==
  /\ wire = <<>>
  /\ rx = <<>>
  /\ rx' = f
  /\ sent' = f
  /\ sentIdle' = FALSE
  /\ sentProc' = 0
  /\ sentLost' = FALSE
  /\ UNCHANGED <<decoderVars, fieldVars, lastVars, iTotalDelay, pc, linkVars, wire,
                 pubs, tail, endCause, frame, nArrived, histVars>>

\* The next byte on the wire reaches the receive buffer.
Arrive ==
  /\ wire # <<>>
  /\ rx = <<>>
  /\ rx' = Append(rx, Head(wire))
  /\ wire' = Tail(wire)
  /\ UNCHANGED <<decoderVars, fieldVars, lastVars, iTotalDelay, pc, linkVars,
                 pubs, tail, endCause, frame, sentVars, nArrived, histVars>>

WifiDrop ==
  /\ wifi
  /\ wifi' = FALSE
  /\ steady' = FALSE
  /\ UNCHANGED <<decoderVars, fieldVars, lastVars, iTotalDelay, pc, mqtt, wire, rx,
                 pubs, tail, endCause, frame, sentVars, nArrived, fresh, top>>

WifiBack ==
  /\ ~wifi
  /\ wifi' = TRUE
  /\ steady' = FALSE
  /\ UNCHANGED <<decoderVars, fieldVars, lastVars, iTotalDelay, pc, mqtt, wire, rx,
                 pubs, tail, endCause, frame, sentVars, nArrived, fresh, top>>

BrokerDrop ==
  /\ mqtt
  /\ mqtt' = FALSE
  /\ steady' = FALSE
  /\ UNCHANGED <<decoderVars, fieldVars, lastVars, iTotalDelay, pc, wifi, wire, rx,
                 pubs, tail, endCause, frame, sentVars, nArrived, fresh, top>>

\* ---------------------------------------------------------------- free stream
\* The serial line delivers any bytes of StreamBytes, in any split over the
\* passes of loop(); WiFi is up and the broker accepts the first connect.
StreamBytes == {MSGSTARTSTOP, 0, 128}

InitStream == Init /\ wifi = TRUE

StreamTop == \E over \in BOOLEAN : LoopTop(1, 0, 1, 0, over)

StreamRead == \E over \in BOOLEAN : SerialRead(over)

StreamTail == \E drops \in BOOLEAN, over \in BOOLEAN : LoopTail(AllOk, drops, over)

StreamByte == \E b \in StreamBytes : Garbage(b)

NextStream == StreamTop \/ StreamRead \/ SerialDone \/ StreamTail \/ StreamByte

SpecStream == InitStream /\ [][NextStream]_vars

\* ---------------------------------------------------------------- frame source
\* The HRV unit sends whole frames, MARKER loc data.. checksum MARKER, whose
\* bytes arrive one by one in any split over the passes of loop(); the broker
\* accepts the connect or is out of reach, and every publish succeeds.
\*   House 20.0 fan 0 control 20; House 21.0 fan 0 control 20;
\*   House 20.0 fan 100 control 20; Roof 16.0;
\*   a House frame of five bytes from location to checksum;
\*   a House frame whose checksum leaves the location byte out.
HouseA == <<126, 49, 1, 64, 0, 20, 122, 126>>
HouseB == <<126, 49, 1, 80, 0, 20, 106, 126>>
HouseC == <<126, 49, 1, 64, 100, 20, 22, 126>>
RoofA == <<126, 48, 1, 0, 0, 0, 207, 126>>
ShortA == <<126, 49, 0, 0, 0, 207, 126>>
DataOnlyA == <<126, 49, 1, 64, 0, 20, 171, 126>>

Frames == {HouseA, HouseB, HouseC, RoofA, ShortA, DataOnlyA}

\* Bytes a corrupted checksum byte is replaced by.
CorruptBytes == {0, MSGSTARTSTOP}

Corrupted(f, d) == [f EXCEPT ![Len(f) - 1] = d]

InitFrames == Init /\ wifi = TRUE

\* The broker accepts the connect or is out of reach for the pass.
FrameTop ==
  IF mqtt THEN LoopTop(1, 0, 0, 0, FALSE)
  ELSE \E okAt \in {0, 1}, over \in BOOLEAN : LoopTop(1, 0, okAt, 0, over)

FrameRead == \E over \in BOOLEAN : SerialRead(over)

FrameTail == \E drops \in BOOLEAN, over \in BOOLEAN : LoopTail(AllOk, drops, over)

FrameSend == \E f \in Frames : Transmit(f)

FrameCorrupt ==
  \E f \in {HouseA, RoofA}, d \in CorruptBytes :
    d # f[Len(f) - 1] /\ Transmit(Corrupted(f, d))

NextFrames ==
  \/ FrameTop \/ FrameRead \/ SerialDone \/ FrameTail
  \/ FrameSend \/ FrameCorrupt \/ Arrive

SpecFrames == InitFrames /\ [][NextFrames]_vars

\* ---------------------------------------------------------------- publishing
\* Whole valid frames wait in the receive buffer when the read loop starts;
\* WiFi and the broker come and go, publishes succeed or fail, and WiFi may
\* stay down past the retry budget of startWIFI.
PublishFrames == {HouseA, HouseB, HouseC, RoofA}

PublishTop ==
  IF mqtt THEN LoopTop(1, 0, 0, 0, FALSE)
  ELSE \E polls \in {1, MaxTries + 1}, garbage \in {0, MaxRetries + 1},
          okAt \in {0, 1}, dropAt \in {0, 1}, over \in BOOLEAN :
         LoopTop(polls, garbage, okAt, dropAt, over)

PublishLoop == \E over \in BOOLEAN : SerialLoop(over)

PublishTail ==
  \E res \in {AllOk, AllFail}, drops \in BOOLEAN, over \in BOOLEAN :
    LoopTail(res, drops, over)

PublishReceive == \E f \in PublishFrames : Receive(f)

NextPublish ==
  \/ PublishTop \/ PublishLoop \/ PublishTail \/ PublishReceive
  \/ WifiDrop \/ WifiBack \/ BrokerDrop

SpecPublish == Init /\ [][NextPublish]_vars

\* ---------------------------------------------------------------- location byte
\* As the publishing specification, with a checksum-valid frame whose location
\* byte is 0x32, neither Roof nor House, next to a House frame.
UnknownA == <<126, 50, 1, 64, 0, 20, 121, 126>>

LocFrames == {HouseA, UnknownA}

LocReceive == \E f \in LocFrames : Receive(f)

NextLoc ==
  \/ PublishTop \/ PublishLoop \/ PublishTail \/ LocReceive
  \/ WifiDrop \/ WifiBack \/ BrokerDrop

SpecLoc == Init /\ [][NextLoc]_vars

\* ---------------------------------------------------------------- alive message
\* The free stream with WiFi up and the broker connected from the first pass
\* on.  loop() is called again and again, so each step of a pass is taken when
\* it can be; a pass whose delays add to iTotalDelay cannot leave it below
\* AliveInterval for ever, so the tail step that finds it carried over recurs.
AliveTail == \E drops \in BOOLEAN : LoopTail(AllOk, drops, TRUE)

NextAlive == StreamTop \/ StreamRead \/ SerialDone \/ StreamTail \/ StreamByte

SpecAlive ==
  /\ InitStream
  /\ [][NextAlive]_vars
  /\ WF_vars(StreamTop)
  /\ WF_vars(StreamRead)
  /\ WF_vars(SerialDone)
  /\ SF_vars(AliveTail)

\* ---------------------------------------------------------------- reconnect block
\* WiFi and the broker come and go.  WiFi comes up after 1, MaxTries or
\* MaxTries + 1 polls of startWIFI; the uninitialised iRetries of line 155
\* holds a negative value, 0 or a value over MaxRetries; the broker accepts
\* the first or the third connect or none; WiFi is seen down after the second
\* failed connect or not at all.
PollValues == {1, MaxTries, MaxTries + 1}

GarbageValues == {0 - 3, 0, MaxRetries + 1}

ConnectTop ==
  IF mqtt THEN LoopTop(1, 0, 0, 0, FALSE)
  ELSE \E polls \in PollValues, garbage \in GarbageValues, okAt \in {0, 1, 3},
          dropAt \in {0, 2}, over \in BOOLEAN :
         LoopTop(polls, garbage, okAt, dropAt, over)

ConnectReceive == Receive(HouseA)

NextConnect ==
  \/ ConnectTop \/ PublishLoop \/ PublishTail \/ ConnectReceive
  \/ WifiDrop \/ WifiBack \/ BrokerDrop

SpecConnect == Init /\ [][NextConnect]_vars

\* ---------------------------------------------------------------- fan status
\* Lines 459-484 on their own: the fan speed and the last control, roof and
\* house values are drawn from the initial state, the step builds the
\* fan-status message.  The text "%" with number n stands for String(n) + "%".
FanSpeeds == {0, 5, 50, 100, 255}

FanDegrees == {18, 20, 22}

\* The variables the sketch does not own, with nothing sent or received.
QuietInit ==
  /\ wifi = TRUE
  /\ mqtt = TRUE
  /\ wire = <<>>
  /\ rx = <<>>
  /\ pubs = <<>>
  /\ tail = NoTail
  /\ endCause = "none"
  /\ frame = NoFrame
  /\ sent = <<>>
  /\ sentIdle = FALSE
  /\ sentProc = 0
  /\ sentLost = FALSE
  /\ nArrived = 0
  /\ steady = FALSE
  /\ fresh = FALSE
  /\ top = NoTop

InitFan ==
  /\ QuietInit
  /\ bStarted = FALSE
  /\ bEnded = FALSE
  /\ bIndex = 0
  /\ bChecksum = 0
  /\ inData = [i \in 0 .. InDataSize - 1 |-> 0]
  /\ eTempLoc = HRVHOUSE
  /\ fHRVTemp = 0
  /\ iHRVControlTemp = 0
  /\ iFanSpeed \in FanSpeeds
  /\ fHRVLastRoof \in {Degrees(d) : d \in FanDegrees}
  /\ fHRVLastHouse \in {Degrees(d) : d \in FanDegrees}
  /\ iHRVLastControl \in FanDegrees
  /\ iHRVLastFanSpeed = 0
  /\ iHRVLastFan = Sentinel
  /\ iTotalDelay = 0
  /\ pc = "fan"

FanApply ==
  /\ pc = "fan"
  /\ \E st \in {FanStatus(iFanSpeed, iHRVLastControl, fHRVLastRoof, fHRVLastHouse)} :
        pubs' = <<Pub(OPENHABHRVSUBFANSPEED, st.text, st.num, TRUE)>>
  /\ pc' = "done"
  /\ UNCHANGED <<decoderVars, fieldVars, lastVars, iTotalDelay, linkVars, wire, rx,
                 tail, endCause, frame, sentVars, nArrived, histVars>>

NextFan == FanApply

SpecFan == InitFan /\ [][NextFan]_vars

\* ---------------------------------------------------------------- hex round trip
\* Lines 311-325 on their own: the two temperature bytes, positions 2 and 3 of
\* inData, take every value; the step decodes them as lines 311, 312 and 325 do.
Bytes == 0 .. ByteMod - 1

InitHex ==
  /\ QuietInit
  /\ bStarted = TRUE
  /\ bEnded = TRUE
  /\ bIndex = 0
  /\ bChecksum = 0
  /\ \E b1 \in Bytes, b2 \in Bytes :
       inData = [i \in 0 .. InDataSize - 1 |-> IF i = 2 THEN b1 ELSE IF i = 3 THEN b2 ELSE 0]
  /\ eTempLoc = 0
  /\ fHRVTemp = 0
  /\ iHRVControlTemp = 0
  /\ iFanSpeed = 0
  /\ fHRVLastRoof = 0
  /\ fHRVLastHouse = 0
  /\ iHRVLastControl = 0
  /\ iHRVLastFanSpeed = 0
  /\ iHRVLastFan = 0
  /\ iTotalDelay = 0
  /\ pc = "hex"

HexApply ==
  /\ pc = "hex"
  /\ fHRVTemp' = Extract(inData, iFanSpeed, iHRVControlTemp).temp
  /\ pc' = "done"
  /\ UNCHANGED <<decoderVars, eTempLoc, iHRVControlTemp, iFanSpeed, lastVars,
                 iTotalDelay, linkVars, wire, rx, pubs, tail, endCause, frame,
                 sentVars, nArrived, histVars>>

NextHex == HexApply

SpecHex == InitHex /\ [][NextHex]_vars

\* ================================================================ claims
\* C1: frame processing (field extraction and SendMQTTMessage) runs for a
\* captured buffer only if, in that pass, the checksum comparison of lines
\* 263-276 ran on the buffer and the two checksums were equal.
C1_ProcessedOnlyIfChecked == tail.processed => tail.matched

\* ---- frames as the HRV unit sends them
RECURSIVE SumFrom(_, _, _)
SumFrom(f, i, last) == IF i > last THEN 0 ELSE f[i] + SumFrom(f, i + 1, last)

\* Two's-complement negation, modulo 256, of the sum of f[first .. Len(f)-2].
WireChecksum(f, first) == (ByteMod - (SumFrom(f, first, Len(f) - 2) % ByteMod)) % ByteMod

\* MARKER, a location byte, data, a checksum byte, MARKER.
Framed(f) ==
  /\ Len(f) >= 4
  /\ f[1] = MSGSTARTSTOP
  /\ f[Len(f)] = MSGSTARTSTOP
  /\ f[2] \in {HRVROOF, HRVHOUSE}

\* Number of bytes from the location byte through the checksum byte.
Inner(f) == Len(f) - 2

NoMarkerInside(f, last) == \A i \in 2 .. last : f[i] # MSGSTARTSTOP

\* The frame last sent has been read to its last byte, none was dropped, and
\* the pass that read the last byte has ended.
SentRead == sent # <<>> /\ ~sentLost /\ wire = <<>> /\ rx = <<>> /\ pc = "top"

\* The processed buffer holds the positional fields of the frame f.
FieldsOf(f) ==
  /\ frame.loc = f[2]
  /\ frame.temp = ByteMod * f[3] + f[4]
  /\ f[2] = HRVHOUSE => frame.fan = f[5] /\ frame.ctl = f[6]

\* C2 as stated: a frame of at least 6 bytes from location byte through
\* checksum byte, whose checksum byte is the two's-complement negation of the
\* sum of the bytes strictly between the location byte and the checksum byte,
\* delivered from the idle state, yields exactly one processed frame with the
\* positionally decoded fields.
C2_DataOnlyChecksumProcessed ==
  (SentRead /\ sentIdle /\ Framed(sent) /\ Inner(sent) >= MinLength
     /\ sent[Len(sent) - 1] = WireChecksum(sent, 3))
    => (sentProc = 1 /\ FieldsOf(sent))

\* The frames lines 207-290 accept: 6 to 8 bytes from location byte through
\* checksum byte, none of them the marker, the checksum byte negating the sum
\* of the location byte and the data bytes.
WellFormed(f) ==
  /\ Framed(f)
  /\ Inner(f) >= MinLength
  /\ Inner(f) <= MaxIndex
  /\ NoMarkerInside(f, Len(f) - 1)
  /\ f[Len(f) - 1] = WireChecksum(f, 2)

\* C2 amended: a frame of 6 to 8 bytes from location byte through checksum
\* byte, none of them 0x7E, whose checksum byte is the two's-complement
\* negation of the sum of the location byte and the data bytes, delivered
\* from the idle state, yields exactly one processed frame with the
\* positionally decoded fields.
C2_ValidFrameProcessedOnce ==
  (SentRead /\ sentIdle /\ WellFormed(sent)) => (sentProc = 1 /\ FieldsOf(sent))

C2_Witness ==
  /\ SentRead /\ sentIdle /\ WellFormed(sent)
  /\ pc = "top" /\ tail.processed /\ tail.matched
  /\ sent[2] = HRVHOUSE /\ frame.temp = 320 /\ frame.ctl = 20

\* A frame that is well-formed but for its checksum byte.
BadChecksum(f) ==
  /\ Framed(f)
  /\ Inner(f) >= MinLength
  /\ Inner(f) <= MaxIndex
  /\ NoMarkerInside(f, Len(f) - 2)
  /\ f[Len(f) - 1] # WireChecksum(f, 2)

\* C3 as stated: an otherwise valid frame whose checksum byte is replaced by
\* any different value, delivered from the idle state, is never processed,
\* and the decoder is idle after the pass that read it.
C3_AnyCorruptionDiscarded ==
  (SentRead /\ sentIdle /\ BadChecksum(sent)) => (sentProc = 0 /\ Idle)

\* C3 amended: an otherwise valid frame whose checksum byte is replaced by a
\* different value other than 0x7E, delivered from the idle state, is never
\* processed, and the decoder is idle after the pass that read it.
C3_CorruptedDiscarded ==
  (SentRead /\ sentIdle /\ BadChecksum(sent) /\ sent[Len(sent) - 1] # MSGSTARTSTOP)
    => (sentProc = 0 /\ Idle)

C3_Witness ==
  /\ SentRead /\ sentIdle /\ BadChecksum(sent) /\ sent[Len(sent) - 1] # MSGSTARTSTOP
  /\ pc = "top" /\ tail.checked /\ ~tail.matched /\ tail.cause = "marker"

\* ---- the tail step of a pass and the messages it hands to mqttClient.publish
TailStep == pc = "tail" /\ pc' = "top"

Published(ps, topic) == \E i \in DOMAIN ps : ps[i].topic = topic

Confirmed(ps, topic) == \E i \in DOMAIN ps : ps[i].topic = topic /\ ps[i].ok

NoReadings(ps) == \A i \in DOMAIN ps : ps[i].topic \notin ReadingTopics

TempTopic(loc) == IF loc = HRVHOUSE THEN OPENHABHRVSUBHOUSE ELSE OPENHABHRVSUBROOF

\* C4: with WiFi and the broker up since the previous processed frame was
\* published, and no reconnect in between, processing a frame with the same
\* fields as the previous one publishes on no reading topic.
C4_SecondIdenticalSilent ==
  [][(TailStep /\ steady /\ tail'.processed /\ tail'.linked /\ frame' = frame)
       => NoReadings(pubs')]_vars

\* C5: the first frame processed with the link up after a pass that
\* re-established the broker connection is published on the temperature topic
\* of its source and, for a House frame, on the control-temperature and
\* fan-speed topics, whatever was published before.
C5_FirstAfterReconnectPublishesAll ==
  [][(TailStep /\ fresh /\ tail'.processed /\ tail'.linked
        /\ frame'.loc \in {HRVROOF, HRVHOUSE})
       => /\ Published(pubs', TempTopic(frame'.loc))
          /\ frame'.loc = HRVHOUSE =>
               /\ Published(pubs', OPENHABHRVSUBCONTROL)
               /\ Published(pubs', OPENHABHRVSUBFANSPEED)]_vars

\* C6: a tail step taken with WiFi down or the broker session down publishes
\* no reading; a frame it processes leaves the decoder idle and the
\* last-published values unchanged.
C6_NoPublishWhenLinkDown ==
  [][(TailStep /\ ~(wifi /\ mqtt))
       => /\ NoReadings(pubs')
          /\ tail'.processed =>
               /\ ~bStarted' /\ ~bEnded' /\ bIndex' = 0
               /\ UNCHANGED lastVars]_vars

C6_Witness ==
  /\ pc = "top" /\ tail.processed /\ ~tail.linked
  /\ frame.loc = HRVHOUSE /\ Idle /\ pubs = <<>>
  /\ fHRVLastHouse # RoundHalf(frame.temp)

\* C7: SendMQTTMessage changes a last-published value only when the publish
\* of that reading in the same call returned success.
C7_LastValueOnlyAfterSuccess ==
  [][TailStep
       => /\ fHRVLastRoof' # fHRVLastRoof => Confirmed(pubs', OPENHABHRVSUBROOF)
          /\ fHRVLastHouse' # fHRVLastHouse => Confirmed(pubs', OPENHABHRVSUBHOUSE)
          /\ iHRVLastControl' # iHRVLastControl => Confirmed(pubs', OPENHABHRVSUBCONTROL)
          /\ iHRVLastFanSpeed' # iHRVLastFanSpeed
               => Confirmed(pubs', OPENHABHRVSUBFANSPEED)]_vars

\* C8: a House frame processed with the link up whose fan speed, control
\* temperature or rounded temperature differs from the last published value
\* is followed by a fan-status message in the same SendMQTTMessage call.
C8_FanStatusOnAnyChange ==
  [][(TailStep /\ tail'.processed /\ tail'.linked /\ frame'.loc = HRVHOUSE
        /\ (\/ frame'.fan # iHRVLastFanSpeed
            \/ frame'.ctl # iHRVLastControl
            \/ RoundHalf(frame'.temp) # fHRVLastHouse))
       => Published(pubs', OPENHABHRVSUBFANSPEED)]_vars

\* C9: a capture ended by the overflow test (bIndex > 8 on a byte that is not
\* the marker) is never processed.
C9_OverflowNeverProcessed == tail.cause = "overflow" => ~tail.processed

\* C10: a buffer is processed only if at least 6 bytes were captured after
\* the start marker (bIndex counts the marker, so bIndex - 1 of them).
C10_AtLeastSixAfterMarker == tail.processed => tail.index - 1 >= MinLength

\* C11: after every pass in which a capture ended (a marker with a non-empty
\* buffer, or the overflow test), the decoder is idle: bStarted and bEnded
\* false, bIndex 0.
C11_IdleAfterCaptureEnd == (pc = "top" /\ tail.cause # "none") => Idle

\* C12: processing a checksum-valid capture whose location byte is neither
\* 0x30 nor 0x31 publishes no reading, changes no last-published value and
\* leaves the decoder idle.
C12_UnknownLocationSilent ==
  [][(TailStep /\ tail'.processed /\ tail'.matched
        /\ frame'.loc \notin {HRVROOF, HRVHOUSE})
       => /\ NoReadings(pubs')
          /\ UNCHANGED lastVars
          /\ ~bStarted' /\ ~bEnded' /\ bIndex' = 0]_vars

\* C13: with WiFi and the broker session up, the alive message on the status
\* topic is published again and again, in every decoder state and whether or
\* not serial bytes arrive.
C13_AliveAgainAndAgain ==
  (<>[](wifi /\ mqtt)) => []<>(pc = "top" /\ Published(pubs, OPENHABHRVSTATUS))

\* C14: the connect loop of a pass stops on the first successful connect,
\* makes no connect attempt after the failed attempt at which WiFi is seen
\* down, and gives up after at most 6 retries (7 calls of mqttClient.connect);
\* a pass that follows a failed connect loop starts with startWIFI.
C14_ConnectLoopBounded ==
  top.ran /\ top.start # "reset"
    => /\ top.connected => top.calls = top.okAt
       /\ top.dropAt # 0 => top.calls <= top.dropAt
       /\ top.calls <= MaxRetries + 2
       /\ top.start \in {"connected", "joined"}

\* C15: a pass that finds the broker disconnected goes on from startWIFI only
\* with WiFi connected: at once when WiFi is connected at the call, otherwise
\* when WiFi comes up within 450 polls; when the poll counter exceeds 450 the
\* device is reset, and the sketch restarts by no other path.
C15_StartWifiReturnsOrResets ==
  [][/\ (pc = "top" /\ pc' = "serial" /\ ~mqtt)
          => /\ top'.ran
             /\ top'.start = (IF wifi THEN "connected" ELSE "joined")
             /\ ~wifi => (top'.polls >= 1 /\ top'.polls <= MaxTries)
             /\ top'.dropAt = 0 => wifi'
     /\ (pc = "top" /\ top' # top /\ top'.ran /\ top'.polls > MaxTries)
          => (~wifi /\ top'.start = "reset" /\ pc' = "top" /\ ~mqtt' /\ bIndex' = 0)
     /\ (top' # top /\ top'.start = "reset")
          => (pc = "top" /\ ~mqtt /\ ~wifi /\ top'.polls > MaxTries)]_vars

C15_Witness ==
  pc = "top" /\ top.ran /\ top.start = "reset" /\ top.polls = MaxTries + 1

\* Every reading among the messages ps comes after an alive message in ps.
AliveFirst(ps) ==
  \A i \in DOMAIN ps :
    ps[i].topic \in ReadingTopics
      => \E j \in 1 .. i - 1 : ps[j].topic = OPENHABHRVSTATUS

\* C16: after a successful broker connect the alive message is published
\* before any reading, and the four last-published values then hold the
\* sentinel 255.  Stated for the pass of the connect, in which nothing is
\* published between the connect and the tail step: the readings of that tail
\* step come after an alive message, and the tail step starts with the four
\* values at the sentinel.
C16_AliveBeforeReadings ==
  [][(TailStep /\ top.connected)
       => /\ AliveFirst(pubs')
          /\ fHRVLastRoof = Degrees(Sentinel)
          /\ fHRVLastHouse = Degrees(Sentinel)
          /\ iHRVLastControl = Sentinel
          /\ iHRVLastFanSpeed = Sentinel]_vars

\* C17: the fan-status text is "Off" for fan speed 0 and "Idle" for 5 whatever
\* the temperatures; for 100 it is "Full (heating)" exactly when lastControl >=
\* lastRoof and lastRoof > lastHouse, "Full (cooling)" exactly when lastRoof <=
\* lastControl and lastRoof < lastHouse, never both, and "Full" otherwise; any
\* other n gives "n%".  Fan 100 with 22, 20, 18 gives "Full (heating)".
C17_FanStatusMapping ==
  pc = "done" =>
    LET text == pubs[1].text
        heating == Degrees(iHRVLastControl) >= fHRVLastRoof /\ fHRVLastRoof > fHRVLastHouse
        cooling == fHRVLastRoof <= Degrees(iHRVLastControl) /\ fHRVLastRoof < fHRVLastHouse
    IN /\ Len(pubs) = 1
       /\ pubs[1].topic = OPENHABHRVSUBFANSPEED
       /\ iFanSpeed = 0 => text = "Off"
       /\ iFanSpeed = 5 => text = "Idle"
       /\ iFanSpeed = 100 =>
            /\ text = "Full (heating)" <=> heating
            /\ text = "Full (cooling)" <=> cooling
            /\ text = "Full" <=> (~heating /\ ~cooling)
            /\ ~(heating /\ cooling)
       /\ iFanSpeed \notin {0, 5, 100} => (text = "%" /\ pubs[1].num = iFanSpeed)
       /\ (iFanSpeed = 100 /\ iHRVLastControl = 22 /\ fHRVLastRoof = Degrees(20)
             /\ fHRVLastHouse = Degrees(18)) => text = "Full (heating)"

C17_Witness ==
  /\ pc = "done" /\ pubs # <<>>
  /\ iFanSpeed = 100 /\ iHRVLastControl = 22
  /\ fHRVLastRoof = Degrees(20) /\ fHRVLastHouse = Degrees(18)
  /\ pubs[1].text = "Full (heating)"

\* C18: for all bytes b1 and b2, hexToDec(decToHex(b1, 2) + decToHex(b2, 2))
\* is 256 * b1 + b2: the decoded temperature, in sixteenths of a degree, is the
\* big-endian value of the two temperature bytes.
C18_HexRoundTrip ==
  pc = "done" => fHRVTemp = ByteMod * inData[2] + inData[3]

C18_Witness ==
  pc = "done" /\ inData[2] = 171 /\ inData[3] = 205 /\ fHRVTemp = 43981

\* C19: bIndex never exceeds 9 and bChecksum never exceeds 8; a byte is
\* stored in inData at an index of 0..8 only, and the checksum loop, the
\* checksum byte and the field extraction read inData at indices of 0..9
\* only, so the 10 bytes of inData are never left.
C19_InDataInBounds ==
  [][/\ bIndex' <= MaxIndex + 1
     /\ bChecksum' <= MaxIndex
     /\ DOMAIN inData' = 0 .. InDataSize - 1
     /\ bIndex' = bIndex + 1 => bIndex <= MaxIndex
     /\ (TailStep /\ tail'.checked) => (bChecksum >= 1 /\ bChecksum <= InDataSize - 1)
     /\ (TailStep /\ tail'.processed) => tail'.index <= InDataSize - 1]_vars

C19_Witness ==
  /\ pc = "tail" /\ endCause = "overflow"
  /\ bIndex = MaxIndex + 1 /\ bChecksum = MaxIndex /\ inData[MaxIndex] = 128

\* One iteration of the read loop consumes the byte at the head of rx.
ReadStep == pc = "serial" /\ rx # <<>> /\ rx' = Tail(rx)

\* C20: an idle decoder that consumes a byte other than the marker keeps
\* bStarted, bEnded, bIndex, bChecksum and inData and publishes nothing; the
\* decoder leaves the idle state only by consuming a marker.
C20_IdleIgnoresNonMarker ==
  [][/\ (ReadStep /\ Idle /\ Head(rx) # MSGSTARTSTOP)
          => (UNCHANGED decoderVars /\ pubs' = pubs /\ pc' = "serial")
     /\ (Idle /\ (bStarted' \/ bEnded' \/ bIndex' # 0))
          => (ReadStep /\ Head(rx) = MSGSTARTSTOP)]_vars

C20_Witness ==
  /\ pc = "serial" /\ rx = <<>> /\ Idle
  /\ nArrived >= 1 /\ inData[0] = 0 /\ bChecksum = 0

====
